---- MODULE Spec2Model ----
(***************************************************************************)
(* A model of the Fizikl web client: the ten-step questionnaire            *)
(* (SurveyPage), the results dashboard (ResultsPage) and the two calls of  *)
(* lib/api.ts that connect them to the server; and of the server's scoring *)
(* engine, whose report the dashboard displays, as far as its design       *)
(* fixes it.                                                               *)
(*                                                                         *)
(* Conventions.                                                            *)
(*  - A nullable value (string | null, SurveyRecord | null, an optional    *)
(*    JSON field) is a sequence of length 0 (null / undefined) or 1.       *)
(*  - A text the user types is a sequence of one-character strings.        *)
(*  - sleep_hours and water_liters move on a 0.5 step; they are held in    *)
(*    half units (sleep_hours 7 is 14, water_liters 1.5 is 3).             *)
(*  - Cyrillic string literals of the source are transliterated, since     *)
(*    the module is ASCII: "Nizkij" is the source's low label, "Srednij"   *)
(*    the middle one, "Vysokij" the high one.                              *)
(***************************************************************************)
EXTENDS Integers, Sequences, FiniteSets, TLC

VARIABLES
  step,        \* SurveyPage: useState(1)
  loading,     \* SurveyPage: useState(false)
  error,       \* SurveyPage: useState<string | null>(null)
  answers,     \* SurveyPage: useState<Partial<SurveyAnswers>>
  submits,     \* POST /api/survey requests in flight
  route,       \* where the questionnaire's router stands
  id,          \* ResultsPage: params.id
  data,        \* ResultsPage: useState<SurveyRecord | null>(null)
  resLoading,  \* ResultsPage: useState(true)
  resError,    \* ResultsPage: useState<string | null>(null)
  fetches,     \* GET /api/results/{id} requests in flight
  started,     \* number of GET requests the page has issued
  view,        \* what ResultsPage last rendered
  stage,       \* scoring engine: the pipeline stage the request has reached
  input,       \* scoring engine: the SurveyAnswers submitted
  engineScores,   \* scoring engine: Scores
  engineGauges,   \* scoring engine: Gauges
  engineTargets,  \* scoring engine: Charts.targets
  candidates,     \* scoring engine: the catalog entries that triggered
  engineRecs,     \* scoring engine: Recommendations
  recsShown,      \* the recommendation list as the dashboard displays it
  gaugeProps,     \* a risk gauge: the value and polarity its two views receive
  gaugeView,      \* what MiniDonut and the gauge's row of the list rendered
  animProps,      \* AnimatedNumber: its props value and duration
  animMounted,    \* AnimatedNumber: mounted, its effect's cleanup not yet run
  displayValue,   \* AnimatedNumber: useState(0)
  startTime,      \* AnimatedNumber: let startTime of the effect
  animationFrame, \* AnimatedNumber: let animationFrame of the effect
  frameRequests,  \* the callbacks requestAnimationFrame holds, by handle
  clock           \* the timestamp of the latest animation frame

vars ==
  << step, loading, error, answers, submits, route,
     id, data, resLoading, resError, fetches, started, view,
     stage, input, engineScores, engineGauges, engineTargets, candidates,
     engineRecs, recsShown,
     gaugeProps, gaugeView,
     animProps, animMounted, displayValue, startTime, animationFrame,
     frameRequests, clock >>

engineVars ==
  << stage, input, engineScores, engineGauges, engineTargets, candidates,
     engineRecs, recsShown >>

surveyVars == << step, loading, error, answers, submits, route >>

resultsVars == << id, data, resLoading, resError, fetches, started, view >>

gaugeVars == << gaugeProps, gaugeView >>

animVars ==
  << animProps, animMounted, displayValue, startTime, animationFrame,
     frameRequests, clock >>

widgetVars == << gaugeVars, animVars >>

\* ------------------------------------------------------------------ bounds

\* the longest alert list a fetched record carries
MaxAlerts == 3

\* the number of entries of the recommendation catalog
CatalogSize == 4

\* the number of GET requests one ResultsPage issues (the first, then one per
\* change of the route id)
MaxFetches == 2

\* the longest time between two animation frames, in ticks of 100 ms
FrameGap == 4

\* ------------------------------------------------------- nullable values

None == << >>

Some(x) == << x >>

\* JavaScript truthiness of a string | null | undefined
Truthy(opt) == opt # None /\ opt[1] # ""

\* ----------------------------------------------------------------- types

GaugeKeys ==
  { "health_index", "activity_score", "recovery_quality", "lifestyle_balance",
    "energy_index", "metabolic_load", "cardio_risk", "consistency",
    "readiness", "confidence" }

Severities == { "info", "warn", "high" }

\* the gauge values the fetched records are drawn from: one per colour tier,
\* each in another tier than its complement to 100
GaugeVals == { 20, 60, 90 }

RecordIds == { "r1", "r2" }

\* ------------------------------------------- ResultsPage: colours and labels

getScoreColor(value, inverse) ==
  LET score == IF inverse THEN 100 - value ELSE value
  IN  IF score >= 75 THEN "text-emerald-500"
      ELSE IF score >= 50 THEN "text-yellow-500"
      ELSE "text-red-500"

getHexColor(value, inverse) ==
  LET score == IF inverse THEN 100 - value ELSE value
  IN  IF score >= 75 THEN "#10b981"
      ELSE IF score >= 50 THEN "#eab308"
      ELSE "#ef4444"

getRiskLabel(value, inverse) ==
  LET score == IF inverse THEN 100 - value ELSE value
  IN  IF score >= 75 THEN "Nizkij"
      ELSE IF score >= 50 THEN "Srednij"
      ELSE "Vysokij"

\* getLabel with the tier bounds left out of the better tier
getLabelExclusive(value, inverse) ==
  IF inverse
  THEN IF value < 25 THEN "Nizkij"
       ELSE IF value < 50 THEN "Srednij"
       ELSE "Vysokij"
  ELSE IF value > 75 THEN "Vysokij"
       ELSE IF value > 50 THEN "Srednij"
       ELSE "Nizkij"

\* MiniDonut's getLabel
getLabel(value, inverse) ==
  IF inverse
  THEN IF value <= 25 THEN "Nizkij"
       ELSE IF value <= 50 THEN "Srednij"
       ELSE "Vysokij"
  ELSE IF value >= 75 THEN "Vysokij"
       ELSE IF value >= 50 THEN "Srednij"
       ELSE "Nizkij"

\* what a GaugeCard shows: its number, in the colour of its tier
GaugeCard(label, value, inverse) ==
  [ label |-> label, value |-> value,
    colorClass |-> getScoreColor(value, inverse) ]

\* what a MiniDonut shows: the raw value, filled and written in `color`, the
\* tier label, and the "less is better" hint of an inverse metric
MiniDonut(value, label, inverse) ==
  [ label |-> label, value |-> value,
    color |-> getHexColor(value, inverse),
    fill  |-> << value, 100 - value >>,
    text  |-> getLabel(value, inverse),
    lessIsBetter |-> inverse ]

\* one row of the radar's legend: the raw value in the colour of its tier
LegendRow(subject, value, inverse) ==
  [ subject |-> subject, value |-> value,
    colorClass |-> getScoreColor(value, inverse) ]

\* ------------------------------------------------ ResultsPage: derived data

radarDataRawRisk(gauges) ==
  << [ subject |-> "Gotovnost",      value |-> gauges.readiness ],
     [ subject |-> "Energiya",       value |-> gauges.energy_index ],
     [ subject |-> "Aktivnost",      value |-> gauges.activity_score ],
     [ subject |-> "Vosstanovlenie", value |-> gauges.recovery_quality ],
     [ subject |-> "Stabilnost",     value |-> gauges.consistency ],
     [ subject |-> "Balans",         value |-> gauges.lifestyle_balance ],
     [ subject |-> "Kardio-risk",    value |-> gauges.cardio_risk ],
     [ subject |-> "Metabolizm",     value |-> 100 - gauges.metabolic_load ] >>

radarDataWithHealth(gauges) ==
  << [ subject |-> "Gotovnost",      value |-> gauges.health_index ],
     [ subject |-> "Energiya",       value |-> gauges.energy_index ],
     [ subject |-> "Aktivnost",      value |-> gauges.activity_score ],
     [ subject |-> "Vosstanovlenie", value |-> gauges.recovery_quality ],
     [ subject |-> "Stabilnost",     value |-> gauges.consistency ],
     [ subject |-> "Balans",         value |-> gauges.lifestyle_balance ],
     [ subject |-> "Kardio-risk",    value |-> 100 - gauges.cardio_risk ],
     [ subject |-> "Metabolizm",     value |-> 100 - gauges.metabolic_load ] >>

radarData(gauges) ==
  << [ subject |-> "Gotovnost",      value |-> gauges.readiness ],
     [ subject |-> "Energiya",       value |-> gauges.energy_index ],
     [ subject |-> "Aktivnost",      value |-> gauges.activity_score ],
     [ subject |-> "Vosstanovlenie", value |-> gauges.recovery_quality ],
     [ subject |-> "Stabilnost",     value |-> gauges.consistency ],
     [ subject |-> "Balans",         value |-> gauges.lifestyle_balance ],
     [ subject |-> "Kardio-risk",    value |-> 100 - gauges.cardio_risk ],
     [ subject |-> "Metabolizm",     value |-> 100 - gauges.metabolic_load ] >>

\* const order = { high: 0, warn: 1, info: 2 }
order == [ high |-> 0, warn |-> 1, info |-> 2 ]

\* the comparator handed to sort
compareAlerts(a, b) == order[a.severity] - order[b.severity]

Front(s) == SubSeq(s, 1, Len(s) - 1)

Last(s) == s[Len(s)]

RECURSIVE InsertUnstable(_, _)
InsertUnstable(x, s) ==
  IF s = << >> THEN << x >>
  ELSE IF compareAlerts(Last(s), x) < 0 THEN Append(s, x)
  ELSE Append(InsertUnstable(x, Front(s)), Last(s))

\* x put into the sorted s behind every element that does not compare
\* greater than it
RECURSIVE Insert(_, _)
Insert(x, s) ==
  IF s = << >> THEN << x >>
  ELSE IF compareAlerts(Last(s), x) <= 0 THEN Append(s, x)
  ELSE Append(Insert(x, Front(s)), Last(s))

\* Array.prototype.sort with compareAlerts. The sort is stable (ECMAScript
\* 2019, 23.1.3.27); it is computed here as a stable insertion sort.
RECURSIVE Sort(_)
Sort(s) ==
  IF s = << >> THEN << >> ELSE Insert(Last(s), Sort(Front(s)))

\* [...flags.alerts].sort(...): the copy is sorted, flags.alerts is not touched
sortedAlerts(alerts) == Sort(alerts)

alertsAfterSortInPlace(alerts) == Sort(alerts)

\* what flags.alerts holds once sortedAlerts is computed: sort works in place
\* on its receiver, which is the copy [...flags.alerts]
alertsAfterSort(alerts) == alerts

legendCardioDirect(gauges) ==
  << LegendRow("Zdorove",        gauges.health_index,      FALSE),
     LegendRow("Gotovnost",      gauges.readiness,         FALSE),
     LegendRow("Energiya",       gauges.energy_index,      FALSE),
     LegendRow("Aktivnost",      gauges.activity_score,    FALSE),
     LegendRow("Vosstanovlenie", gauges.recovery_quality,  FALSE),
     LegendRow("Stabilnost",     gauges.consistency,       FALSE),
     LegendRow("Balans",         gauges.lifestyle_balance, FALSE),
     LegendRow("Kardio-risk",    gauges.cardio_risk,       FALSE),
     LegendRow("Metabolizm",     gauges.metabolic_load,    TRUE) >>

\* the nine rows beside the radar
legend(gauges) ==
  << LegendRow("Zdorove",        gauges.health_index,      FALSE),
     LegendRow("Gotovnost",      gauges.readiness,         FALSE),
     LegendRow("Energiya",       gauges.energy_index,      FALSE),
     LegendRow("Aktivnost",      gauges.activity_score,    FALSE),
     LegendRow("Vosstanovlenie", gauges.recovery_quality,  FALSE),
     LegendRow("Stabilnost",     gauges.consistency,       FALSE),
     LegendRow("Balans",         gauges.lifestyle_balance, FALSE),
     LegendRow("Kardio-risk",    gauges.cardio_risk,       TRUE),
     LegendRow("Metabolizm",     gauges.metabolic_load,    TRUE) >>

\* the three cards at the top of the dashboard
mainGauges(gauges) ==
  << GaugeCard("Indeks zdorovya", gauges.health_index, FALSE),
     GaugeCard("Gotovnost",       gauges.readiness,    FALSE),
     GaugeCard("Energiya",        gauges.energy_index, FALSE) >>

\* the "balance and risks" card
donuts(gauges) ==
  << MiniDonut(gauges.lifestyle_balance, "Balans obraza zhizni",     FALSE),
     MiniDonut(gauges.cardio_risk,       "Kardio-risk",              TRUE),
     MiniDonut(gauges.metabolic_load,    "Metabolicheskaya nagruzka", TRUE) >>

\* what ResultsPage returns for the state (data, loading, error)
ResultsPageRender(d, l, e) ==
  IF l THEN [ screen |-> "loading" ]
  ELSE IF Truthy(e) \/ d = None
  THEN [ screen |-> "error",
         message |-> IF Truthy(e) THEN e[1] ELSE "Dannye ne najdeny" ]
  ELSE LET gauges == d[1].results.gauges
           flags  == d[1].results.flags
       IN  [ screen       |-> "dashboard",
             mainGauges   |-> mainGauges(gauges),
             sortedAlerts |-> sortedAlerts(flags.alerts),
             donuts       |-> donuts(gauges),
             radarData    |-> radarData(gauges),
             legend       |-> legend(gauges) ]

\* ------------------------------------------------------------ HTTP replies

\* a body that is not JSON: response.json() rejects with a SyntaxError
NotJson == [ json |-> FALSE, value |-> None ]

\* the JSON text "null"
JsonNull == [ json |-> TRUE, value |-> None ]

\* a JSON object
Json(v) == [ json |-> TRUE, value |-> Some(v) ]

\* a reply of the server; Response.ok is true for a status in 200..299
HttpResponse(status, body) ==
  [ failed |-> FALSE, status |-> status, ok |-> status \in 200..299,
    body |-> body ]

\* no reply at all: fetch() rejects with a TypeError
NetworkError ==
  [ failed |-> TRUE, status |-> 0, ok |-> FALSE, body |-> NotJson ]

\* how an async function ends
Return(v) == [ threw |-> FALSE, message |-> "", value |-> v ]

Throw(m) == [ threw |-> TRUE, message |-> m, value |-> None ]

StatusCodes == { 200, 201, 400, 404, 500 }

\* --------------------------------------------------------------- lib/api.ts

getSurveyResultsNotFound400(response) ==
  IF response.failed THEN Throw("Failed to fetch")
  ELSE IF ~response.ok
  THEN IF response.status = 400 THEN Throw("Survey not found")
       ELSE Throw("Failed to fetch results")
  ELSE IF ~response.body.json THEN Throw("Unexpected token in JSON")
  ELSE Return(response.body.value)

\* getSurveyResults(id), given the reply to its GET request
getSurveyResults(response) ==
  IF response.failed THEN Throw("Failed to fetch")
  ELSE IF ~response.ok
  THEN IF response.status = 404 THEN Throw("Survey not found")
       ELSE Throw("Failed to fetch results")
  ELSE IF ~response.body.json THEN Throw("Unexpected token in JSON")
  ELSE Return(response.body.value)

\* ------------------------------------------------------ ResultsPage: state

\* the alerts of a record: alert i of the list was generated i-th
Alerts(sev) ==
  [ i \in 1..Len(sev) |->
      [ key |-> "a" \o ToString(i), severity |-> sev[i] ] ]

AlertLists ==
  { Alerts(sev) : sev \in UNION { [1..n -> Severities] : n \in 0..MaxAlerts } }

GaugeRecords == [ GaugeKeys -> GaugeVals ]

\* a stored SurveyRecord, as far as the dashboard reads it
SurveyRecord(i, gauges, alerts) ==
  [ id |-> i,
    results |-> [ gauges |-> gauges, flags |-> [ alerts |-> alerts ] ] ]

\* the record the server holds under id i
StoredRecord(i) ==
  SurveyRecord(i,
    [ k \in GaugeKeys |-> IF i = "r1" THEN 20 ELSE 90 ],
    Alerts(<< "info", "high" >>))

\* the replies the server may give to GET /api/results/{i}
FetchResponses(i) ==
  { NetworkError }
    \cup { HttpResponse(st, b) :
             st \in StatusCodes, b \in { NotJson, JsonNull, Json(StoredRecord(i)) } }

\* the records the dashboard is rendered for: every combination of gauge
\* values, and every alert list
RenderRecords ==
  { SurveyRecord("r1", g, << >>) : g \in GaugeRecords }
    \cup { SurveyRecord("r1", StoredRecord("r1").results.gauges, a) :
             a \in AlertLists }

Remove(s, k) == SubSeq(s, 1, k - 1) \o SubSeq(s, k + 1, Len(s))

\* useEffect(() => { fetchData() }, [id]) up to its await: the GET is issued
\* the record in data once the page has rendered
AfterRender(d, l, e) ==
  IF l \/ Truthy(e) \/ d = None THEN d
  ELSE Some([ d[1] EXCEPT !.results.flags.alerts = alertsAfterSort(@) ])

StartFetch(i) ==
  /\ id' = i
  /\ fetches' = Append(fetches, [ id |-> i, response |-> None ])
  /\ started' = started + 1
  /\ view' = ResultsPageRender(data, resLoading, resError)
  /\ data' = AfterRender(data, resLoading, resError)
  /\ UNCHANGED << resLoading, resError >>
  /\ UNCHANGED << surveyVars, engineVars, widgetVars >>

\* the effect of the first render
Mount ==
  /\ started = 0
  /\ StartFetch(id)

\* the route id changes under the mounted page, and the effect runs again
RouteChange(i) ==
  /\ started \in 1..(MaxFetches - 1)
  /\ i # id
  /\ StartFetch(i)

\* the server answers request k
ServerAnswersFetch(k, response) ==
  /\ k \in 1..Len(fetches)
  /\ fetches[k].response = None
  /\ response \in FetchResponses(fetches[k].id)
  /\ fetches' = [ fetches EXCEPT ![k].response = Some(response) ]
  /\ UNCHANGED << id, data, resLoading, resError, started, view >>
  /\ UNCHANGED << surveyVars, engineVars, widgetVars >>

\* fetchData with setLoading(false) at the end of the try block only
FetchSettleWithoutFinally(k) ==
  /\ k \in 1..Len(fetches)
  /\ fetches[k].response # None
  /\ LET result == getSurveyResults(fetches[k].response[1])
         set    == IF result.threw THEN data ELSE result.value
     IN  /\ resError' = IF result.threw THEN Some(result.message) ELSE resError
         /\ resLoading' = IF result.threw THEN resLoading ELSE FALSE
         /\ view' = ResultsPageRender(set, resLoading', resError')
         /\ data' = AfterRender(set, resLoading', resError')
  /\ fetches' = Remove(fetches, k)
  /\ UNCHANGED << id, started >>
  /\ UNCHANGED << surveyVars, engineVars, widgetVars >>

\* fetchData after its await: try / catch / finally, then the re-render
FetchSettle(k) ==
  /\ k \in 1..Len(fetches)
  /\ fetches[k].response # None
  /\ LET result == getSurveyResults(fetches[k].response[1])
         set    == IF result.threw THEN data ELSE result.value
     IN  /\ resError' = IF result.threw THEN Some(result.message) ELSE resError
         /\ resLoading' = FALSE
         /\ view' = ResultsPageRender(set, resLoading', resError')
         /\ data' = AfterRender(set, resLoading', resError')
  /\ fetches' = Remove(fetches, k)
  /\ UNCHANGED << id, started >>
  /\ UNCHANGED << surveyVars, engineVars, widgetVars >>

\* ------------------------------------------------------ SurveyPage: inputs

TOTAL_STEPS == 10

\* the names typed: none, a blank one, and one with blanks around a letter
NameTexts == { << >>, << " " >>, << " ", "a", " " >> }

\* the age texts typed: nothing, the ages on both sides of 18 and of 80, the
\* largest two-digit and the smallest three-digit number, a negative number,
\* a text that is no number, and a number followed or preceded by other text
AgeTexts ==
  { << >>, << "0" >>,
    << "1", "7" >>, << "1", "8" >>, << "8", "0" >>, << "8", "1" >>,
    << "9", "9" >>, << "1", "0", "0" >>,
    << "-", "1" >>, << "a" >>, << "8", "1", "a" >>, << " ", "1", "7" >> }

IsSpace(c) == c = " "

Digits == { "0", "1", "2", "3", "4", "5", "6", "7", "8", "9" }

DigitValue(c) ==
  CASE c = "0" -> 0 [] c = "1" -> 1 [] c = "2" -> 2 [] c = "3" -> 3
    [] c = "4" -> 4 [] c = "5" -> 5 [] c = "6" -> 6 [] c = "7" -> 7
    [] c = "8" -> 8 [] c = "9" -> 9

\* String.prototype.trim
RECURSIVE TrimStart(_)
TrimStart(s) ==
  IF s # << >> /\ IsSpace(Head(s)) THEN TrimStart(Tail(s)) ELSE s

RECURSIVE TrimEnd(_)
TrimEnd(s) ==
  IF s # << >> /\ IsSpace(Last(s)) THEN TrimEnd(Front(s)) ELSE s

trim(s) == TrimEnd(TrimStart(s))

\* the value of the longest prefix of s made of digits, read after acc
RECURSIVE ReadDigits(_, _)
ReadDigits(s, acc) ==
  IF s # << >> /\ Head(s) \in Digits
  THEN ReadDigits(Tail(s), 10 * acc + DigitValue(Head(s)))
  ELSE acc

\* parseInt(val): blanks skipped, an optional sign, then the leading digits;
\* None is NaN. (No text here starts with 0x, which parseInt reads as hex.)
parseInt(val) ==
  LET s      == TrimStart(val)
      signed == s # << >> /\ Head(s) \in { "-", "+" }
      body   == IF signed THEN Tail(s) ELSE s
  IN  IF body = << >> \/ Head(body) \notin Digits THEN None
      ELSE IF signed /\ Head(s) = "-" THEN Some(0 - ReadDigits(body, 0))
      ELSE Some(ReadDigits(body, 0))

activityLevels == << "Nizkij", "Srednij", "Vysokij", "Ochen vysokij" >>

goals ==
  << "Pohudenie", "Nabor massy", "Podderzhanie formy", "Uluchshenie zdorovya" >>

fastfoodOptions == << "Nikogda", "Redko", "Inogda", "Chasto", "Ochen chasto" >>

Range(s) == { s[i] : i \in DOMAIN s }

\* the values a Slider of the given min and max hands to onValueChange, in
\* units of its step
SliderValues(min, max) == min..max

\* the slider position the user moves to: the far end of the track
SliderMoves(min, max) == { v \in SliderValues(min, max) : v = max }

\* the option the user picks from a list: one that is not the preselected one
Picks(options, preselected) ==
  { options[Len(options) - (IF options[Len(options)] = preselected THEN 1 ELSE 0)] }

\* ------------------------------------------------------------- submitSurvey

\* a JSON object of the submit endpoint: {id, results} on success, {detail}
\* on failure; a field that is absent is None
SubmitBody(i, detail) == Json([ id |-> i, detail |-> detail ])

DetailTexts == { "age must be between 18 and 80", "" }

\* the replies the server may give to POST /api/survey: submitSurvey checks
\* response.ok only, so an OK reply may carry any body, an object without
\* an id included
SubmitResponses ==
  { NetworkError }
    \cup { HttpResponse(st, b) :
             st \in { c \in StatusCodes : c \in 200..299 },
             b \in { NotJson, JsonNull, SubmitBody(None, None) }
                     \cup { SubmitBody(Some(i), None) : i \in RecordIds } }
    \cup { HttpResponse(st, b) :
             st \in { c \in StatusCodes : c \notin 200..299 },
             b \in { NotJson, JsonNull, SubmitBody(None, None) }
                     \cup { SubmitBody(None, Some(d)) : d \in DetailTexts } }

submitSurveyDropsDetail(response) ==
  IF response.failed THEN Throw("Failed to fetch")
  ELSE IF ~response.ok
  THEN IF ~response.body.json THEN Throw("Unexpected token in JSON")
       ELSE IF response.body.value = None
       THEN Throw("Cannot read properties of null")
       ELSE Throw("Failed to submit survey")
  ELSE IF ~response.body.json THEN Throw("Unexpected token in JSON")
  ELSE Return(response.body.value)

\* submitSurvey(answers), given the reply to its POST request
submitSurvey(response) ==
  IF response.failed THEN Throw("Failed to fetch")
  ELSE IF ~response.ok
  THEN IF ~response.body.json THEN Throw("Unexpected token in JSON")
       ELSE IF response.body.value = None
       THEN Throw("Cannot read properties of null")
       ELSE LET detail == response.body.value[1].detail
            IN  Throw(IF Truthy(detail) THEN detail[1]
                      ELSE "Failed to submit survey")
  ELSE IF ~response.body.json THEN Throw("Unexpected token in JSON")
  ELSE Return(response.body.value)

\* ------------------------------------------------------- SurveyPage: state

\* useState<Partial<SurveyAnswers>>({...})
InitialAnswers ==
  [ name               |-> << >>,
    age                |-> 30,
    activity_level     |-> "Srednij",
    goal               |-> "Uluchshenie zdorovya",
    workouts_per_week  |-> 2,
    sleep_hours        |-> 14,
    stress_level       |-> 5,
    water_liters       |-> 3,
    fastfood_frequency |-> "Inogda",
    smokes             |-> FALSE ]

canProceedUntrimmed ==
  CASE step = 1 -> answers.name # << >> /\ Len(answers.name) > 0
    [] step = 2 -> answers.age # 0 /\ answers.age >= 18 /\ answers.age <= 80
    [] OTHER    -> TRUE

canProceedFrom17 ==
  CASE step = 1 -> answers.name # << >> /\ Len(trim(answers.name)) > 0
    [] step = 2 -> answers.age # 0 /\ answers.age >= 17 /\ answers.age <= 80
    [] OTHER    -> TRUE

canProceed ==
  CASE step = 1 -> answers.name # << >> /\ Len(trim(answers.name)) > 0
    [] step = 2 -> answers.age # 0 /\ answers.age >= 18 /\ answers.age <= 80
    [] OTHER    -> TRUE

\* setAnswers({ ...answers, [field]: value })
SetAnswer(field, value) ==
  /\ answers' = [ answers EXCEPT ![field] = value ]
  /\ UNCHANGED << step, loading, error, submits, route >>
  /\ UNCHANGED << resultsVars, engineVars, widgetVars >>

\* step 1: the name field's onChange
ChangeName(val) ==
  /\ step = 1
  /\ SetAnswer("name", val)

\* step 2: the age field's onChange
ChangeAge(val) ==
  /\ step = 2
  /\ IF val = << >>
     THEN SetAnswer("age", 0)
     ELSE LET num == parseInt(val)
          IN  IF num # None /\ num[1] >= 0 /\ num[1] <= 99
              THEN SetAnswer("age", num[1])
              ELSE UNCHANGED vars

BlurAgeKeepsEmpty ==
  /\ step = 2
  /\ IF answers.age # 0 /\ answers.age < 18 THEN SetAnswer("age", 18)
     ELSE IF answers.age > 80 THEN SetAnswer("age", 80)
     ELSE UNCHANGED vars

\* step 2: the age field's onBlur
BlurAge ==
  /\ step = 2
  /\ IF answers.age = 0 \/ answers.age < 18 THEN SetAnswer("age", 18)
     ELSE IF answers.age > 80 THEN SetAnswer("age", 80)
     ELSE UNCHANGED vars

\* step 3: the RadioGroup of activityLevels
SelectActivityLevel(value) ==
  /\ step = 3
  /\ value \in Range(activityLevels)
  /\ SetAnswer("activity_level", value)

\* step 4: the RadioGroup of goals
SelectGoal(value) ==
  /\ step = 4
  /\ value \in Range(goals)
  /\ SetAnswer("goal", value)

\* step 5: Slider min 0, max 7, step 1
SlideWorkouts(value) ==
  /\ step = 5
  /\ value \in SliderValues(0, 7)
  /\ SetAnswer("workouts_per_week", value)

\* step 6: Slider min 4, max 12, step 0.5
SlideSleep(value) ==
  /\ step = 6
  /\ value \in SliderValues(8, 24)
  /\ SetAnswer("sleep_hours", value)

\* step 7: Slider min 1, max 10, step 1
SlideStress(value) ==
  /\ step = 7
  /\ value \in SliderValues(1, 10)
  /\ SetAnswer("stress_level", value)

\* step 8: Slider min 0, max 5, step 0.5
SlideWater(value) ==
  /\ step = 8
  /\ value \in SliderValues(0, 10)
  /\ SetAnswer("water_liters", value)

\* step 9: the Select of fastfoodOptions
SelectFastfood(value) ==
  /\ step = 9
  /\ value \in Range(fastfoodOptions)
  /\ SetAnswer("fastfood_frequency", value)

\* step 10: the two buttons
ClickSmokes(value) ==
  /\ step = 10
  /\ value \in BOOLEAN
  /\ SetAnswer("smokes", value)

handleNextUnguarded ==
  /\ step' = step + 1
  /\ UNCHANGED << loading, error, answers, submits, route >>
  /\ UNCHANGED << resultsVars, engineVars, widgetVars >>

handleNext ==
  /\ step' = IF step < TOTAL_STEPS THEN step + 1 ELSE step
  /\ UNCHANGED << loading, error, answers, submits, route >>
  /\ UNCHANGED << resultsVars, engineVars, widgetVars >>

handleBack ==
  /\ step' = IF step > 1 THEN step - 1 ELSE step
  /\ UNCHANGED << loading, error, answers, submits, route >>
  /\ UNCHANGED << resultsVars, engineVars, widgetVars >>

\* the Next button: rendered below the last step, disabled by !canProceed()
ClickNext ==
  /\ step < TOTAL_STEPS
  /\ canProceed
  /\ handleNext

ClickBackWhileLoading ==
  /\ step > 1
  /\ handleBack

\* the Back button: rendered above the first step, disabled by loading
ClickBack ==
  /\ step > 1
  /\ ~loading
  /\ handleBack

handleSubmitKeepsError ==
  /\ loading' = TRUE
  /\ submits' = Append(submits, [ answers |-> answers, response |-> None ])
  /\ UNCHANGED << step, answers, route, error >>
  /\ UNCHANGED << resultsVars, engineVars, widgetVars >>

\* handleSubmit up to its await: the POST is issued with the answers
handleSubmit ==
  /\ loading' = TRUE
  /\ error' = None
  /\ submits' = Append(submits, [ answers |-> answers, response |-> None ])
  /\ UNCHANGED << step, answers, route >>
  /\ UNCHANGED << resultsVars, engineVars, widgetVars >>

ClickSubmitWhileLoading ==
  /\ ~(step < TOTAL_STEPS)
  /\ handleSubmit

\* the submit button: rendered at the last step, disabled by loading
ClickSubmit ==
  /\ ~(step < TOTAL_STEPS)
  /\ ~loading
  /\ handleSubmit

\* the server answers request k
ServerAnswersSubmit(k, response) ==
  /\ k \in 1..Len(submits)
  /\ submits[k].response = None
  /\ response \in SubmitResponses
  /\ submits' = [ submits EXCEPT ![k].response = Some(response) ]
  /\ UNCHANGED << step, loading, error, answers, route >>
  /\ UNCHANGED << resultsVars, engineVars, widgetVars >>

SubmitSettleStartsOver(k) ==
  /\ k \in 1..Len(submits)
  /\ submits[k].response # None
  /\ LET result == submitSurvey(submits[k].response[1])
     IN  IF result.threw \/ result.value = None
         THEN /\ error' = Some(IF result.threw THEN result.message
                               ELSE "Cannot read properties of null")
              /\ loading' = FALSE
              /\ step' = 1
              /\ UNCHANGED route
         ELSE /\ route' = "/results/" \o
                   (IF result.value[1].id = None THEN "undefined"
                    ELSE result.value[1].id[1])
              /\ UNCHANGED << error, loading, step >>
  /\ submits' = Remove(submits, k)
  /\ UNCHANGED answers
  /\ UNCHANGED << resultsVars, engineVars, widgetVars >>

\* handleSubmit after its await: router.push, or the catch block
SubmitSettle(k) ==
  /\ k \in 1..Len(submits)
  /\ submits[k].response # None
  /\ LET result == submitSurvey(submits[k].response[1])
     IN  IF result.threw
         THEN /\ error' = Some(result.message)
              /\ loading' = FALSE
              /\ UNCHANGED route
         ELSE IF result.value = None
         THEN /\ error' = Some("Cannot read properties of null")
              /\ loading' = FALSE
              /\ UNCHANGED route
         ELSE /\ route' = "/results/" \o
                   (IF result.value[1].id = None THEN "undefined"
                    ELSE result.value[1].id[1])
              /\ UNCHANGED << error, loading >>
  /\ submits' = Remove(submits, k)
  /\ UNCHANGED << step, answers >>
  /\ UNCHANGED << resultsVars, engineVars, widgetVars >>

\* the error box under the question card: {error && <div>{error}</div>}
SurveyErrorBox(e) == IF Truthy(e) THEN e ELSE None

\* ------------------------------------------------ scoring engine (server)
\* The engine runs on the server; the client holds its data schema
\* (lib/types.ts) and displays its report.  Its stages follow the design of
\* the report pipeline: Validator, Category Scorer, Composite Index Builder,
\* Chart/Series Builder, Recommendation Ranker.  The numeric rule tables are
\* configuration: each stage below takes its table from the set of tables the
\* design admits.  Real values are held as integers.

ScoreOrder ==
  << "activity", "sleep", "stress", "hydration", "nutrition", "smoking",
     "age_modifier", "movement_neat", "recovery_debt", "nutrition_stability",
     "habit_score" >>

ScoreKeys == Range(ScoreOrder)

GaugeOrder ==
  << "health_index", "activity_score", "recovery_quality",
     "lifestyle_balance", "energy_index", "metabolic_load", "cardio_risk",
     "consistency", "readiness", "confidence" >>

\* the answers the engine is run on: the two boundary scenarios, and the
\* second one with an age on either side of 18..80
BoundaryLow ==
  [ name               |-> << "a" >>,
    age                |-> 18,
    activity_level     |-> "Nizkij",
    goal               |-> "Pohudenie",
    workouts_per_week  |-> 0,
    sleep_hours        |-> 8,
    stress_level       |-> 10,
    water_liters       |-> 0,
    fastfood_frequency |-> "Ochen chasto",
    smokes             |-> TRUE ]

BoundaryHigh ==
  [ name               |-> << "a" >>,
    age                |-> 30,
    activity_level     |-> "Vysokij",
    goal               |-> "Podderzhanie formy",
    workouts_per_week  |-> 5,
    sleep_hours        |-> 16,
    stress_level       |-> 2,
    water_liters       |-> 5,
    fastfood_frequency |-> "Nikogda",
    smokes             |-> FALSE ]

EngineAnswers ==
  { BoundaryLow, BoundaryHigh,
    [ BoundaryHigh EXCEPT !.age = 17 ], [ BoundaryHigh EXCEPT !.age = 81 ] }

\* Input Validator: TRUE when no ValidationError is raised
validate(a) ==
  /\ Len(a.name) > 0
  /\ a.age \in 18..80
  /\ a.activity_level \in Range(activityLevels)
  /\ a.goal \in Range(goals)
  /\ a.workouts_per_week \in 0..7
  /\ a.sleep_hours \in (2 * 4)..(2 * 12)
  /\ a.stress_level \in 1..10
  /\ a.water_liters \in (2 * 0)..(2 * 5)
  /\ a.fastfood_frequency \in Range(fastfoodOptions)
  /\ a.smokes \in BOOLEAN

clampUpperOnly(x) == IF x > 100 THEN 100 ELSE x

\* a sub-score is clamped to [0,100] after computation
clamp(x) == IF x < 0 THEN 0 ELSE IF x > 100 THEN 100 ELSE x

\* what the scoring formulas may give before clamping
RawValues == { 0 - 10, 0, 55, 100, 140 }

\* the formulas' results for one input: every score at one value of the
\* range, and one score below or above the range
RawScores ==
  { [ k \in ScoreKeys |-> IF k = d THEN out ELSE base ] :
      d \in ScoreKeys,
      out \in { v \in RawValues : v \notin 0..100 },
      base \in { v \in RawValues : v \in 0..100 } }

\* Category Scorer
CategoryScorer(raw) == [ k \in ScoreKeys |-> clamp(raw[k]) ]

\* the weight tables: one row per gauge, naming the scores that contribute
\* and their weights
WeightTables ==
  { [ g \in 1..Len(GaugeOrder) |->
        [ gauge        |-> GaugeOrder[g],
          contributing |-> << ScoreOrder[((g + shift) % Len(ScoreOrder)) + 1],
                              ScoreOrder[((g + shift + 1) % Len(ScoreOrder)) + 1] >>,
          weights      |-> << w, 100 - w >> ] ] :
      shift \in { 0, 3 }, w \in { 0, 50, 70, 95, 100 } }

RECURSIVE WeightedSum(_, _, _)
WeightedSum(row, s, i) ==
  IF i = 0 THEN 0
  ELSE row.weights[i] * s[row.contributing[i]] + WeightedSum(row, s, i - 1)

RECURSIVE SumOf(_, _)
SumOf(ws, i) == IF i = 0 THEN 0 ELSE ws[i] + SumOf(ws, i - 1)

\* Composite Index Builder: each gauge is the weighted mean of its scores
CompositeIndexBuilder(s, table) ==
  [ key \in GaugeKeys |->
      LET row == table[CHOOSE g \in DOMAIN table : table[g].gauge = key]
      IN  WeightedSum(row, s, Len(row.weights))
            \div SumOf(row.weights, Len(row.weights)) ]

\* stage 1: the validator accepts or rejects the request
Validate ==
  /\ stage = "received"
  /\ stage' = IF validate(input[1]) THEN "accepted" ELSE "rejected"
  /\ UNCHANGED << input, engineScores, engineGauges, engineTargets,
                  candidates, engineRecs, recsShown >>
  /\ UNCHANGED << surveyVars, resultsVars, widgetVars >>

\* stage 2: the eleven sub-scores
ScoreStage(raw) ==
  /\ stage = "accepted"
  /\ engineScores' = Some(CategoryScorer(raw))
  /\ stage' = "scored"
  /\ UNCHANGED << input, engineGauges, engineTargets, candidates,
                  engineRecs, recsShown >>
  /\ UNCHANGED << surveyVars, resultsVars, widgetVars >>

\* stage 3: the ten gauges
IndexStage(table) ==
  /\ stage = "scored"
  /\ engineGauges' = Some(CompositeIndexBuilder(engineScores[1], table))
  /\ stage' = "indexed"
  /\ UNCHANGED << input, engineScores, engineTargets, candidates,
                  engineRecs, recsShown >>
  /\ UNCHANGED << surveyVars, resultsVars, widgetVars >>

\* the tier ladder of the targets
TierLadder == << 50, 65, 75, 85, 95 >>

TopTier == TierLadder[Len(TierLadder)]

NextTierOrSame(current) ==
  TierLadder[CHOOSE i \in DOMAIN TierLadder :
               /\ TierLadder[i] >= current
               /\ \A j \in DOMAIN TierLadder :
                    TierLadder[j] >= current => i <= j]

\* the next tier strictly greater than current, for current below the top
NextTier(current) ==
  TierLadder[CHOOSE i \in DOMAIN TierLadder :
               /\ TierLadder[i] > current
               /\ \A j \in DOMAIN TierLadder :
                    TierLadder[j] > current => i <= j]

\* the gauges below the top tier, in order
RECURSIVE SelectGauges(_, _)
SelectGauges(keys, g) ==
  IF keys = << >> THEN << >>
  ELSE (IF g[keys[1]] < TopTier THEN << keys[1] >> ELSE << >>)
         \o SelectGauges(Tail(keys), g)

\* Chart/Series Builder (e): one Target per gauge below the top tier
BuildTargets(g) ==
  LET below == SelectGauges(GaugeOrder, g)
  IN  [ i \in 1..Len(below) |->
          [ key       |-> below[i],
            current   |-> g[below[i]],
            next_tier |-> NextTier(g[below[i]]) ] ]

\* stage 4: the charts
ChartStage ==
  /\ stage = "indexed"
  /\ engineTargets' = Some(BuildTargets(engineGauges[1]))
  /\ stage' = "charted"
  /\ UNCHANGED << input, engineScores, engineGauges, candidates, engineRecs,
                  recsShown >>
  /\ UNCHANGED << surveyVars, resultsVars, widgetVars >>

\* the recommendation catalog, in catalog order
Catalog == [ i \in 1..CatalogSize |-> "rec" \o ToString(i) ]

\* the priority weights a candidate may get
CandidateWeights == { 1, 2 }

\* the candidates generated from the catalog: the entries that trigger, in
\* catalog order, each with its weight
RECURSIVE GenerateCandidates(_, _)
GenerateCandidates(w, i) ==
  IF i > CatalogSize THEN << >>
  ELSE (IF w[i] = 0 THEN << >>
        ELSE << [ key |-> Catalog[i], weight |-> w[i] ] >>)
         \o GenerateCandidates(w, i + 1)

\* every way the catalog may trigger: weight 0 is an entry that does not
CandidateLists ==
  { GenerateCandidates(w, 1) :
      w \in [ 1..CatalogSize -> CandidateWeights \cup { 0 } ] }

\* x goes behind every candidate of at least its weight
RECURSIVE RankInsert(_, _)
RankInsert(x, s) ==
  IF s = << >> THEN << x >>
  ELSE IF Last(s).weight >= x.weight THEN Append(s, x)
  ELSE Append(RankInsert(x, Front(s)), Last(s))

\* the stable sort by weight descending
RECURSIVE RankSort(_)
RankSort(s) ==
  IF s = << >> THEN << >> ELSE RankInsert(Last(s), RankSort(Front(s)))

Min(a, b) == IF a < b THEN a ELSE b

\* Recommendation Ranker
RecommendationRanker(cands) ==
  LET ranked == RankSort(cands)
      all    == [ i \in 1..Len(ranked) |->
                    [ key |-> ranked[i].key, priority |-> i ] ]
  IN  [ all |-> all, top_3 |-> SubSeq(all, 1, Min(3, Len(all))) ]

\* stage 5: the candidates from the catalog
CandidateStage(cands) ==
  /\ stage = "charted"
  /\ candidates' = Some(cands)
  /\ stage' = "generated"
  /\ UNCHANGED << input, engineScores, engineGauges, engineTargets,
                  engineRecs, recsShown >>
  /\ UNCHANGED << surveyVars, resultsVars, widgetVars >>

\* stage 6: the ranking
RankStage ==
  /\ stage = "generated"
  /\ engineRecs' = Some(RecommendationRanker(candidates[1]))
  /\ stage' = "ranked"
  /\ UNCHANGED << input, engineScores, engineGauges, engineTargets,
                  candidates, recsShown >>
  /\ UNCHANGED << surveyVars, resultsVars, widgetVars >>

recommendationsRenderFirstFour(all) ==
  [ n \in 1..Len(all) |->
      LET i == n - 1
      IN  [ key         |-> all[n].key,
            highlighted |-> i <= 3,
            ordinal     |-> i + 1 ] ]

recommendationsRenderFromZero(all) ==
  [ n \in 1..Len(all) |->
      LET i == n - 1
      IN  [ key         |-> all[n].key,
            highlighted |-> i < 3,
            ordinal     |-> i ] ]

\* ResultsPage: recommendations.all.map((rec, i) => ...), i counted from 0
recommendationsRender(all) ==
  [ n \in 1..Len(all) |->
      LET i == n - 1
      IN  [ key         |-> all[n].key,
            highlighted |-> i < 3,
            ordinal     |-> i + 1 ] ]

\* the dashboard displays the recommendations of the report
ShowRecommendations ==
  /\ stage = "ranked"
  /\ recsShown' = Some(recommendationsRender(engineRecs[1].all))
  /\ stage' = "shown"
  /\ UNCHANGED << input, engineScores, engineGauges, engineTargets,
                  candidates, engineRecs >>
  /\ UNCHANGED << surveyVars, resultsVars, widgetVars >>

\* ------------------------------------------------- ResultsPage: risk gauges

\* the gauges of the card "Balans i riski": each is drawn by a MiniDonut
\* under its label and written in a row of the indicator list under the
\* list's own text, with the same polarity
RiskGauges ==
  { [ label |-> "Balans obraza zhizni",      subject |-> "Balans",
      inverse |-> FALSE ],
    [ label |-> "Kardio-risk",               subject |-> "Kardio-risk",
      inverse |-> TRUE ],
    [ label |-> "Metabolicheskaya nagruzka", subject |-> "Metabolizm",
      inverse |-> TRUE ] }

\* the text the indicator list writes for the gauge a MiniDonut is labelled
RowSubject(label) ==
  (CHOOSE g \in RiskGauges : g.label = label).subject

\* the props of one gauge, for every value a gauge takes
GaugeProps ==
  { [ label |-> g.label, value |-> v, inverse |-> g.inverse ] :
      g \in RiskGauges, v \in 0..100 }

\* the render of one gauge: its MiniDonut and its row of the list
RenderGauge ==
  /\ gaugeView = None
  /\ gaugeView' =
       Some([ donut |-> MiniDonut(gaugeProps.value, gaugeProps.label,
                                  gaugeProps.inverse),
              row   |-> LegendRow(RowSubject(gaugeProps.label),
                                  gaugeProps.value, gaugeProps.inverse) ])
  /\ UNCHANGED << gaugeProps, animVars >>
  /\ UNCHANGED << surveyVars, resultsVars, engineVars >>

\* ------------------------------------------------------------ AnimatedNumber
\* Time is counted in ticks of 100 ms: a duration is held in tenths of a
\* second, which is duration * 1000 ms in ticks. A value is held in halves.

\* the durations in use: the default of 1 s and GaugeCard's 1.2 s
Durations == { 10, 12 }

\* values (in halves): -1.5, 0, 0.5, 7.5, 74.5 and 100
AnimValues == { -3, 0, 1, 15, 149, 200 }

\* the timestamps at which the component may mount
MountTimes == { 0, 5 }

Pow4(x) == x * x * x * x

\* Math.round of the fraction n / d, d > 0: the nearest integer, a half
\* going up
MathRound(n, d) == (2 * n + d) \div (2 * d)

\* animate's progress, in ticks out of `duration`, without Math.min
progressUncapped(currentTime, start, duration) == currentTime - start

\* animate's progress, in ticks out of `duration`
progress(currentTime, start, duration) ==
  Min(currentTime - start, duration)

\* Math.round(easeOutQuart * value) at a progress of p ticks out of duration
roundedEase(p, props) ==
  MathRound(props.value * (Pow4(props.duration) - Pow4(props.duration - p)),
            2 * Pow4(props.duration))

\* the body of the effect: the first frame is requested
AnimEffect ==
  /\ animMounted
  /\ animationFrame = None
  /\ animationFrame' = Some(1)
  /\ frameRequests' = { 1 }
  /\ UNCHANGED << animProps, animMounted, displayValue, startTime, clock >>
  /\ UNCHANGED << surveyVars, resultsVars, engineVars, gaugeVars >>

\* the browser runs the requested callback with the frame's timestamp
animate(currentTime) ==
  /\ frameRequests # { }
  /\ \/ currentTime \in (clock + 1)..(clock + FrameGap)
     \/ startTime = None /\ currentTime = clock
  /\ LET start == IF startTime = None \/ startTime[1] = 0
                  THEN currentTime ELSE startTime[1]
         p     == progress(currentTime, start, animProps.duration)
     IN  /\ startTime' = Some(start)
         /\ displayValue' = roundedEase(p, animProps)
         /\ IF p < animProps.duration
            THEN /\ animationFrame' = Some(animationFrame[1] + 1)
                 /\ frameRequests' = { animationFrame[1] + 1 }
            ELSE /\ frameRequests' = { }
                 /\ UNCHANGED animationFrame
  /\ clock' = currentTime
  /\ UNCHANGED << animProps, animMounted >>
  /\ UNCHANGED << surveyVars, resultsVars, engineVars, gaugeVars >>

\* the cleanup of the effect, run when the component unmounts
AnimUnmount ==
  /\ animMounted
  /\ animationFrame # None
  /\ animMounted' = FALSE
  /\ frameRequests' = frameRequests \ { animationFrame[1] }
  /\ UNCHANGED << animProps, displayValue, startTime, animationFrame, clock >>
  /\ UNCHANGED << surveyVars, resultsVars, engineVars, gaugeVars >>

\* ---------------------------------------------------------- specifications

\* SurveyPage after its first render
SurveyInit ==
  /\ step = 1
  /\ loading = FALSE
  /\ error = None
  /\ answers = InitialAnswers
  /\ submits = << >>
  /\ route = "/survey"

\* ResultsPage after its first render, before its effect has run
ResultsInit ==
  /\ id = "r1"
  /\ data = None
  /\ resLoading = TRUE
  /\ resError = None
  /\ fetches = << >>
  /\ started = 0
  /\ view = ResultsPageRender(None, TRUE, None)

\* the scoring engine before a request has arrived
EngineIdle ==
  /\ stage = "idle"
  /\ input = None
  /\ engineScores = None
  /\ engineGauges = None
  /\ engineTargets = None
  /\ candidates = None
  /\ engineRecs = None
  /\ recsShown = None

\* no gauge and no AnimatedNumber on the screen
WidgetsIdle ==
  /\ gaugeProps = [ label |-> "Kardio-risk", value |-> 0, inverse |-> TRUE ]
  /\ gaugeView = None
  /\ animProps = [ value |-> 0, duration |-> 10 ]
  /\ animMounted = FALSE
  /\ displayValue = 0
  /\ startTime = None
  /\ animationFrame = None
  /\ frameRequests = { }
  /\ clock = 0

\* one gauge of the risk card about to be rendered, for every value
GaugeInit ==
  /\ step = 1
  /\ loading = FALSE
  /\ error = None
  /\ answers = InitialAnswers
  /\ submits = << >>
  /\ route = "/survey"
  /\ id = "r1"
  /\ data = None
  /\ resLoading = TRUE
  /\ resError = None
  /\ fetches = << >>
  /\ started = 0
  /\ view = ResultsPageRender(None, TRUE, None)
  /\ stage = "idle"
  /\ input = None
  /\ engineScores = None
  /\ engineGauges = None
  /\ engineTargets = None
  /\ candidates = None
  /\ engineRecs = None
  /\ recsShown = None
  /\ gaugeProps \in GaugeProps
  /\ gaugeView = None
  /\ animProps = [ value |-> 0, duration |-> 10 ]
  /\ animMounted = FALSE
  /\ displayValue = 0
  /\ startTime = None
  /\ animationFrame = None
  /\ frameRequests = { }
  /\ clock = 0

\* AnimatedNumber after its first render, before its effect has run
AnimationInit ==
  /\ step = 1
  /\ loading = FALSE
  /\ error = None
  /\ answers = InitialAnswers
  /\ submits = << >>
  /\ route = "/survey"
  /\ id = "r1"
  /\ data = None
  /\ resLoading = TRUE
  /\ resError = None
  /\ fetches = << >>
  /\ started = 0
  /\ view = ResultsPageRender(None, TRUE, None)
  /\ stage = "idle"
  /\ input = None
  /\ engineScores = None
  /\ engineGauges = None
  /\ engineTargets = None
  /\ candidates = None
  /\ engineRecs = None
  /\ recsShown = None
  /\ gaugeProps = [ label |-> "Kardio-risk", value |-> 0, inverse |-> TRUE ]
  /\ gaugeView = None
  /\ animProps \in [ value : AnimValues, duration : Durations ]
  /\ animMounted = TRUE
  /\ displayValue = 0
  /\ startTime = None
  /\ animationFrame = None
  /\ frameRequests = { }
  /\ clock \in MountTimes

\* ResultsPage with its GET answered by a record, before fetchData resumes
RenderInit ==
  /\ step = 1
  /\ loading = FALSE
  /\ error = None
  /\ answers = InitialAnswers
  /\ submits = << >>
  /\ route = "/survey"
  /\ id = "r1"
  /\ data = None
  /\ resLoading = TRUE
  /\ resError = None
  /\ \E r \in RenderRecords :
       fetches = << [ id |-> "r1", response |-> Some(HttpResponse(200, Json(r))) ] >>
  /\ started = 1
  /\ view = ResultsPageRender(None, TRUE, None)
  /\ stage = "idle"
  /\ input = None
  /\ engineScores = None
  /\ engineGauges = None
  /\ engineTargets = None
  /\ candidates = None
  /\ engineRecs = None
  /\ recsShown = None
  /\ gaugeProps = [ label |-> "Kardio-risk", value |-> 0, inverse |-> TRUE ]
  /\ gaugeView = None
  /\ animProps = [ value |-> 0, duration |-> 10 ]
  /\ animMounted = FALSE
  /\ displayValue = 0
  /\ startTime = None
  /\ animationFrame = None
  /\ frameRequests = { }
  /\ clock = 0

SurveyNext ==
  \/ \E val \in NameTexts : ChangeName(val)
  \/ \E val \in AgeTexts : ChangeAge(val)
  \/ BlurAge
  \/ \E value \in Picks(activityLevels, InitialAnswers.activity_level) : SelectActivityLevel(value)
  \/ \E value \in Picks(goals, InitialAnswers.goal) : SelectGoal(value)
  \/ \E value \in SliderMoves(0, 7) : SlideWorkouts(value)
  \/ \E value \in SliderMoves(8, 24) : SlideSleep(value)
  \/ \E value \in SliderMoves(1, 10) : SlideStress(value)
  \/ \E value \in SliderMoves(0, 10) : SlideWater(value)
  \/ \E value \in Picks(fastfoodOptions, InitialAnswers.fastfood_frequency) : SelectFastfood(value)
  \/ \E value \in BOOLEAN : ClickSmokes(value)
  \/ ClickNext
  \/ ClickBack
  \/ ClickSubmit
  \/ \E k \in 1..Len(submits), response \in SubmitResponses :
       ServerAnswersSubmit(k, response)
  \/ \E k \in 1..Len(submits) : SubmitSettle(k)

ResultsNext ==
  \/ Mount
  \/ \E i \in RecordIds : RouteChange(i)
  \/ \E k \in 1..Len(fetches) :
       \E response \in FetchResponses(fetches[k].id) :
         ServerAnswersFetch(k, response)
  \/ \E k \in 1..Len(fetches) : FetchSettle(k)

RenderNext == \E k \in 1..Len(fetches) : FetchSettle(k)

\* both pages as constructed
Init == SurveyInit /\ ResultsInit /\ EngineIdle /\ WidgetsIdle

\* the questionnaire
SurveySpec == Init /\ [][SurveyNext]_vars

\* the results page, from its mount
ResultsSpec == Init /\ [][ResultsNext]_vars

\* the results page when every request is answered and every answered
\* request resumes fetchData: the effect of the first render runs, the
\* server replies, and the promise's continuation is scheduled
ResultsFairSpec ==
  /\ Init
  /\ [][ResultsNext]_vars
  /\ WF_vars(Mount)
  /\ WF_vars(\E k \in 1..Len(fetches) :
               \E response \in FetchResponses(fetches[k].id) :
                 ServerAnswersFetch(k, response))
  /\ WF_vars(\E k \in 1..Len(fetches) : FetchSettle(k))

GaugeNext == RenderGauge

AnimationNext ==
  \/ AnimEffect
  \/ \E currentTime \in clock..(clock + FrameGap) : animate(currentTime)
  \/ AnimUnmount

\* the risk card's gauges, rendered for every value and polarity
GaugeSpec == GaugeInit /\ [][GaugeNext]_vars

\* AnimatedNumber for a fixed value and duration, with the browser
\* delivering the frames it was asked for
AnimationSpec ==
  /\ AnimationInit
  /\ [][AnimationNext]_vars
  /\ WF_vars(AnimEffect)
  /\ WF_vars(\E currentTime \in clock..(clock + FrameGap) : animate(currentTime))

\* the dashboard, rendered for every record of RenderRecords
RenderSpec == RenderInit /\ [][RenderNext]_vars

\* the engine with a request received
EngineInit ==
  /\ step = 1
  /\ loading = FALSE
  /\ error = None
  /\ answers = InitialAnswers
  /\ submits = << >>
  /\ route = "/survey"
  /\ id = "r1"
  /\ data = None
  /\ resLoading = TRUE
  /\ resError = None
  /\ fetches = << >>
  /\ started = 0
  /\ view = ResultsPageRender(None, TRUE, None)
  /\ stage = "received"
  /\ input \in { Some(a) : a \in EngineAnswers }
  /\ engineScores = None
  /\ engineGauges = None
  /\ engineTargets = None
  /\ candidates = None
  /\ engineRecs = None
  /\ recsShown = None
  /\ gaugeProps = [ label |-> "Kardio-risk", value |-> 0, inverse |-> TRUE ]
  /\ gaugeView = None
  /\ animProps = [ value |-> 0, duration |-> 10 ]
  /\ animMounted = FALSE
  /\ displayValue = 0
  /\ startTime = None
  /\ animationFrame = None
  /\ frameRequests = { }
  /\ clock = 0

EngineNext ==
  \/ Validate
  \/ \E raw \in RawScores : ScoreStage(raw)
  \/ \E table \in WeightTables : IndexStage(table)
  \/ ChartStage
  \/ \E cands \in CandidateLists : CandidateStage(cands)
  \/ RankStage
  \/ ShowRecommendations

\* one run of the engine
EngineSpec == EngineInit /\ [][EngineNext]_vars

\* =================================================================== claims

\* the gauges of the record the dashboard shows
ShownGauges == data[1].results.gauges

Dashboard == view.screen = "dashboard"

\* the two gauges of which a higher value is the worse one
InverseGauges == { "cardio_risk", "metabolic_load" }

\* the value of gauge k on the scale where higher is better
Score(k) ==
  IF k \in InverseGauges THEN 100 - ShownGauges[k] ELSE ShownGauges[k]

\* the axis of the radar that carries gauge k: the names the legend beside
\* the radar gives the gauges
RadarSubject ==
  [ readiness         |-> "Gotovnost",
    energy_index      |-> "Energiya",
    activity_score    |-> "Aktivnost",
    recovery_quality  |-> "Vosstanovlenie",
    consistency       |-> "Stabilnost",
    lifestyle_balance |-> "Balans",
    cardio_risk       |-> "Kardio-risk",
    metabolic_load    |-> "Metabolizm" ]

\* C1: the radar series holds 100 - raw for cardio_risk and metabolic_load
\* and the raw gauge value for each of the other six radar gauges.
C1_RadarPolarity ==
  Dashboard =>
    \A k \in DOMAIN RadarSubject :
      \E i \in DOMAIN view.radarData :
        /\ view.radarData[i].subject = RadarSubject[k]
        /\ view.radarData[i].value =
             (IF k \in { "cardio_risk", "metabolic_load" }
              THEN 100 - ShownGauges[k] ELSE ShownGauges[k])

\* a dashboard on which an inverse gauge and a direct gauge have the same raw
\* value and different radar values
C1_Witness ==
  /\ Dashboard
  /\ ShownGauges.cardio_risk = 20 /\ ShownGauges.metabolic_load = 60
  /\ ShownGauges.readiness = 20
  /\ view.radarData[1].value = 20
  /\ view.radarData[7].value = 80
  /\ view.radarData[8].value = 40

\* the alerts of the record the dashboard shows, in generation order
ShownAlerts == data[1].results.flags.alerts

\* the place of a severity in the display order: most severe first
SeverityRank(sev) ==
  CASE sev = "high" -> 1 [] sev = "warn" -> 2 [] sev = "info" -> 3

\* the index of alert x in the list s
IndexIn(s, x) == CHOOSE p \in DOMAIN s : s[p] = x

\* C2: sortedAlerts has all 'high' alerts before all 'warn' alerts before all
\* 'info' alerts, and two alerts of equal severity appear in the same
\* relative order as in flags.alerts.
C2_AlertsSortedStable ==
  Dashboard =>
    LET shown == view.sortedAlerts
    IN  /\ \A i \in DOMAIN shown : \E p \in DOMAIN ShownAlerts : ShownAlerts[p] = shown[i]
        /\ \A i, j \in DOMAIN shown :
             i < j =>
               /\ SeverityRank(shown[i].severity) <= SeverityRank(shown[j].severity)
               /\ shown[i].severity = shown[j].severity =>
                    IndexIn(ShownAlerts, shown[i]) < IndexIn(ShownAlerts, shown[j])

\* generated info, high, info: the high alert is moved to the front and the
\* two info alerts keep their order
C2_Witness ==
  /\ Dashboard
  /\ Len(ShownAlerts) = 3
  /\ ShownAlerts[1].severity = "info" /\ ShownAlerts[2].severity = "high"
  /\ ShownAlerts[3].severity = "info"
  /\ view.sortedAlerts = << ShownAlerts[2], ShownAlerts[1], ShownAlerts[3] >>

\* the tier of a score on the scale where higher is better
Tier(score) ==
  IF score >= 75 THEN "good" ELSE IF score >= 50 THEN "middle" ELSE "poor"

\* the tier a colour stands for, as a text class and as a hex code
TierOfColor(c) ==
  CASE c \in { "text-emerald-500", "#10b981" } -> "good"
    [] c \in { "text-yellow-500", "#eab308" }  -> "middle"
    [] c \in { "text-red-500", "#ef4444" }     -> "poor"

\* the word a donut writes for a tier: for a direct gauge the level of the
\* value, for an inverse gauge the level of the risk
TierWord(k, tier) ==
  IF k \in InverseGauges
  THEN CASE tier = "good" -> "Nizkij" [] tier = "middle" -> "Srednij"
         [] tier = "poor" -> "Vysokij"
  ELSE CASE tier = "good" -> "Vysokij" [] tier = "middle" -> "Srednij"
         [] tier = "poor" -> "Nizkij"

\* the gauges the legend, the donuts and the top cards show, by their labels
LegendSubject ==
  [ k \in DOMAIN RadarSubject \cup { "health_index" } |->
      IF k = "health_index" THEN "Zdorove" ELSE RadarSubject[k] ]

DonutLabel ==
  [ lifestyle_balance |-> "Balans obraza zhizni",
    cardio_risk       |-> "Kardio-risk",
    metabolic_load    |-> "Metabolicheskaya nagruzka" ]

CardLabel ==
  [ health_index |-> "Indeks zdorovya",
    readiness    |-> "Gotovnost",
    energy_index |-> "Energiya" ]

\* C7: cardio_risk and metabolic_load are treated as inverse-polarity in
\* every place they are coloured, labelled or plotted, and no direct-polarity
\* gauge is passed through an inverse path: every consumer shows a gauge in
\* the tier of its score (100 - value for the two, the value for the others).
C7_PolarityPreserved ==
  Dashboard =>
    /\ \A k \in DOMAIN LegendSubject :
         \E i \in DOMAIN view.legend :
           /\ view.legend[i].subject = LegendSubject[k]
           /\ view.legend[i].value = ShownGauges[k]
           /\ TierOfColor(view.legend[i].colorClass) = Tier(Score(k))
    /\ \A k \in DOMAIN DonutLabel :
         \E i \in DOMAIN view.donuts :
           /\ view.donuts[i].label = DonutLabel[k]
           /\ view.donuts[i].value = ShownGauges[k]
           /\ TierOfColor(view.donuts[i].color) = Tier(Score(k))
           /\ view.donuts[i].text = TierWord(k, Tier(Score(k)))
           /\ view.donuts[i].lessIsBetter = (k \in InverseGauges)
    /\ \A k \in DOMAIN CardLabel :
         \E i \in DOMAIN view.mainGauges :
           /\ view.mainGauges[i].label = CardLabel[k]
           /\ view.mainGauges[i].value = ShownGauges[k]
           /\ TierOfColor(view.mainGauges[i].colorClass) = Tier(Score(k))
    /\ \A k \in DOMAIN RadarSubject :
         \E i \in DOMAIN view.radarData :
           /\ view.radarData[i].subject = RadarSubject[k]
           /\ view.radarData[i].value = Score(k)

\* a low cardio_risk is shown green and a low lifestyle_balance red, a high
\* metabolic_load red and a high readiness green
C7_Witness ==
  /\ Dashboard
  /\ ShownGauges.cardio_risk = 20 /\ ShownGauges.lifestyle_balance = 20
  /\ ShownGauges.metabolic_load = 90 /\ ShownGauges.readiness = 90
  /\ view.legend[8].colorClass = "text-emerald-500"
  /\ view.legend[7].colorClass = "text-red-500"
  /\ view.donuts[2].color = "#10b981" /\ view.donuts[2].text = "Nizkij"
  /\ view.donuts[1].color = "#ef4444" /\ view.donuts[1].text = "Nizkij"
  /\ view.donuts[3].color = "#ef4444" /\ view.donuts[3].text = "Vysokij"
  /\ view.mainGauges[2].colorClass = "text-emerald-500"

\* the places where two series differ
Differences(a, b) == { i \in DOMAIN a : a[i] # b[i] }

\* the points of the radar that move when gauge k of the shown record alone
\* changes
PointsOf(k) ==
  UNION { Differences(view.radarData,
                      radarData([ ShownGauges EXCEPT ![k] = v ])) :
            v \in GaugeVals }

\* C10: the radar has exactly 8 points, each from a distinct gauge, and
\* neither health_index nor confidence is among them; the 8 gauges are the
\* remaining eight of the ten gauges.
C10_RadarEightGauges ==
  Dashboard =>
    /\ Len(view.radarData) = 8
    /\ \A k \in GaugeKeys :
         Cardinality(PointsOf(k)) =
           (IF k \in { "health_index", "confidence" } THEN 0 ELSE 1)
    /\ UNION { PointsOf(k) : k \in GaugeKeys } = DOMAIN view.radarData
    /\ \A i, j \in DOMAIN view.radarData :
         view.radarData[i].subject = view.radarData[j].subject => i = j

\* a dashboard whose health_index and confidence differ from the other
\* gauges, and no point of the radar shows their value
C10_Witness ==
  /\ Dashboard
  /\ ShownGauges.health_index = 20 /\ ShownGauges.confidence = 90
  /\ \A k \in GaugeKeys \ { "health_index", "confidence" } : ShownGauges[k] = 60
  /\ Len(view.radarData) = 8
  /\ \A i \in DOMAIN view.radarData : view.radarData[i].value \in { 40, 60 }

\* the reply that fetch k has received
FetchReply(k) == fetches[k].response[1]

\* this step is fetchData resuming for fetch k
FetchSettles(k) ==
  /\ fetches[k].response # None
  /\ fetches' = Remove(fetches, k)

\* C3: for a non-OK response getSurveyResults throws 'Survey not found'
\* exactly when the status is 404 and 'Failed to fetch results' for every
\* other non-OK status, and the results page then displays that same
\* message; an OK response never produces either error.
C3_NotFoundDistinguished ==
  [][ \A k \in DOMAIN fetches :
        FetchSettles(k) /\ ~FetchReply(k).failed =>
          LET message ==
                IF FetchReply(k).status = 404 THEN "Survey not found"
                ELSE "Failed to fetch results"
          IN  /\ ~FetchReply(k).ok =>
                   /\ resError' = Some(message)
                   /\ view'.screen = "error" /\ view'.message = message
              /\ FetchReply(k).ok =>
                   /\ resError' \notin { Some("Survey not found"),
                                         Some("Failed to fetch results") }
                        \/ resError' = resError
                   /\ FetchReply(k).body.json => resError' = resError
    ]_vars

\* after a record was loaded, the fetch for another id was answered 404 and
\* the page shows the not-found message
C3_Witness ==
  /\ data # None
  /\ ~resLoading
  /\ resError = Some("Survey not found")
  /\ view.screen = "error" /\ view.message = "Survey not found"

\* this step is handleSubmit resuming for request k
SubmitSettles(k) ==
  /\ submits[k].response # None
  /\ submits' = Remove(submits, k)

\* the reply that request k has received
SubmitReply(k) == submits[k].response[1]

\* the reply is a non-OK one whose body is an object with a detail message
CarriesDetail(r) ==
  /\ ~r.failed /\ ~r.ok
  /\ r.body.json /\ r.body.value # None
  /\ r.body.value[1].detail # None
  /\ r.body.value[1].detail[1] # ""

\* C4: whenever the submit endpoint answers non-OK with a body carrying a
\* detail message, the error text the questionnaire sets and displays is
\* exactly that detail value.
C4_DetailVerbatim ==
  [][ \A k \in DOMAIN submits :
        SubmitSettles(k) /\ CarriesDetail(SubmitReply(k)) =>
          /\ error' = SubmitReply(k).body.value[1].detail
          /\ SurveyErrorBox(error') = SubmitReply(k).body.value[1].detail
    ]_vars

\* a rejected submission whose detail is on the page
C4_Witness ==
  /\ step = TOTAL_STEPS
  /\ submits = << >>
  /\ ~loading
  /\ error = Some("age must be between 18 and 80")
  /\ SurveyErrorBox(error) = Some("age must be between 18 and 80")

\* a text with a character that is no blank
NonBlank(text) == \E i \in DOMAIN text : text[i] # " "

\* answers with all ten fields, each inside its declared domain (sleep_hours
\* and water_liters in half units)
InDomain(a) ==
  /\ DOMAIN a = { "name", "age", "activity_level", "goal", "workouts_per_week",
                  "sleep_hours", "stress_level", "water_liters",
                  "fastfood_frequency", "smokes" }
  /\ NonBlank(a.name)
  /\ a.age \in 18..80
  /\ a.workouts_per_week \in 0..7
  /\ a.sleep_hours \in (2 * 4)..(2 * 12)
  /\ a.stress_level \in 1..10
  /\ a.water_liters \in (2 * 0)..(2 * 5)
  /\ a.activity_level \in { "Nizkij", "Srednij", "Vysokij", "Ochen vysokij" }
  /\ a.goal \in { "Pohudenie", "Nabor massy", "Podderzhanie formy",
                  "Uluchshenie zdorovya" }
  /\ a.fastfood_frequency \in { "Nikogda", "Redko", "Inogda", "Chasto",
                                "Ochen chasto" }
  /\ a.smokes \in BOOLEAN

\* C5: after any sequence of questionnaire actions, submitSurvey is only ever
\* invoked with all ten fields present and inside their declared domains.
C5_SubmittedInDomain ==
  \A k \in DOMAIN submits : InDomain(submits[k].answers)

\* a request sent with the age at the upper end, after the sliders were moved
C5_Witness ==
  /\ Len(submits) = 1
  /\ submits[1].answers.age = 80
  /\ submits[1].answers.workouts_per_week = 7
  /\ submits[1].answers.sleep_hours = 24
  /\ submits[1].answers.smokes = TRUE

\* C6: in every reachable state with step > 2 the age is in 18..80 and in
\* every reachable state with step > 1 the trimmed name is non-empty, because
\* Next is disabled at step 2 while age is outside 18..80 and at step 1 while
\* the name is blank.
C6_AgeAndNameGate ==
  /\ step > 2 => answers.age \in 18..80
  /\ step > 1 => NonBlank(answers.name)
  /\ step = 2 /\ answers.age \notin 18..80 => ~ENABLED ClickNext
  /\ step = 1 /\ ~NonBlank(answers.name) => ~ENABLED ClickNext

\* the age 17 typed at step 2: Next is disabled
C6_Witness ==
  /\ step = 2
  /\ answers.age = 17
  /\ ~ENABLED ClickNext

\* C8: at most one submitSurvey request is pending at any moment, since
\* handleSubmit can only be triggered while loading is false and sets loading
\* to true before the request is issued.
C8_OneSubmitPending ==
  /\ Len(submits) <= 1
  /\ submits # << >> => loading
  /\ loading => ~ENABLED ClickSubmit

\* a request is pending after an earlier one has failed and the answer was
\* changed
C8_Witness ==
  /\ Len(submits) = 1
  /\ loading
  /\ submits[1].answers.smokes = TRUE
  /\ submits[1].response # None
  /\ ~ENABLED ClickSubmit

\* the id a reply carries, None when it carries none
ReturnedId(r) ==
  IF ~r.failed /\ r.ok /\ r.body.json /\ r.body.value # None
  THEN r.body.value[1].id ELSE None

\* C9: every completed submit attempt ends in exactly one of two outcomes,
\* either navigation to /results/{id} with the id returned by the server and
\* no error set, or an error message set with loading reset to false and no
\* navigation; never both and never neither.
C9_AllOrNothing ==
  [][ \A k \in DOMAIN submits :
        SubmitSettles(k) =>
          LET navigated ==
                /\ ReturnedId(SubmitReply(k)) # None
                /\ route' = "/results/" \o ReturnedId(SubmitReply(k))[1]
                /\ error' = None
              rejected ==
                /\ error' # None
                /\ loading' = FALSE
                /\ route' = "/survey"
          IN  (navigated \/ rejected) /\ ~(navigated /\ rejected)
    ]_vars

\* C11: a failed submission is recoverable by re-submitting corrected input:
\* after submitSurvey fails, loading is false, step is still 10 and the answers
\* are unchanged, so Back and the submit button are enabled again, and a later
\* submit sends the then-current answers.
C11_FailureRecoverable ==
  /\ [][ \A k \in DOMAIN submits :
           SubmitSettles(k) /\ submitSurvey(SubmitReply(k)).threw =>
             /\ loading' = FALSE
             /\ step = TOTAL_STEPS /\ step' = TOTAL_STEPS
             /\ answers' = answers
             /\ route' = "/survey"
       ]_vars
  /\ [](route = "/survey" /\ step = TOTAL_STEPS /\ ~loading =>
          ENABLED ClickBack /\ ENABLED ClickSubmit)
  /\ [][ Len(submits') > Len(submits) =>
           /\ submits'[Len(submits')].answers = answers
           /\ submits'[Len(submits')].response = None
       ]_vars

\* a submission was rejected, the answer to the last question was changed
\* since, and both buttons are enabled
C11_Witness ==
  /\ error = Some("age must be between 18 and 80")
  /\ ~loading
  /\ step = TOTAL_STEPS
  /\ answers.smokes = TRUE
  /\ ENABLED ClickBack
  /\ ENABLED ClickSubmit

\* C12: for all valid SurveyAnswers, every one of the eleven Score values and
\* ten Gauge values of the produced Summary lies in [0,100].
C12_ScoresAndGaugesInRange ==
  /\ engineScores # None =>
       /\ validate(input[1])
       /\ DOMAIN engineScores[1] = ScoreKeys /\ Cardinality(ScoreKeys) = 11
       /\ \A k \in ScoreKeys : engineScores[1][k] \in 0..100
  /\ engineGauges # None =>
       /\ validate(input[1])
       /\ DOMAIN engineGauges[1] = GaugeKeys /\ Cardinality(GaugeKeys) = 10
       /\ \A k \in GaugeKeys : engineGauges[1][k] \in 0..100

\* the gauges were built from scores of which one was computed above 100 and
\* clamped
C12_Witness ==
  /\ engineGauges # None
  /\ \E d \in ScoreKeys :
       /\ engineScores[1][d] = 100
       /\ \A k \in ScoreKeys \ { d } : engineScores[1][k] = 55
  /\ \E k \in GaugeKeys : engineGauges[1][k] \notin { 55, 100 }

\* C13: recommendations.top_3 is the first three elements of
\* recommendations.all in the same order, and equals all when all has fewer
\* than three elements (never padded); the entries the dashboard marks as top
\* priority are exactly those at positions 1..min(3, len(all)) of all.
C13_TopThreeIsPrefix ==
  /\ engineRecs # None =>
       LET all == engineRecs[1].all
           top == engineRecs[1].top_3
       IN  /\ Len(top) = (IF Len(all) < 3 THEN Len(all) ELSE 3)
           /\ \A i \in DOMAIN top : top[i] = all[i]
           /\ Len(all) < 3 => top = all
  /\ recsShown # None =>
       LET all == engineRecs[1].all
           top == engineRecs[1].top_3
       IN  /\ Len(recsShown[1]) = Len(all)
           /\ { n \in DOMAIN recsShown[1] : recsShown[1][n].highlighted }
                = DOMAIN top
           /\ \A n \in DOMAIN top : recsShown[1][n].key = top[n].key

\* four recommendations are displayed, the first three of them marked
C13_Witness ==
  /\ stage = "shown"
  /\ Len(engineRecs[1].all) = 4
  /\ Len(engineRecs[1].top_3) = 3
  /\ recsShown[1][3].highlighted
  /\ ~recsShown[1][4].highlighted

\* C14: for every gauge, no Target entry exists when the gauge is at or above
\* the top tier of the ladder, and when it is below the top tier the Target's
\* next_tier is the smallest ladder value strictly greater than current
\* (never next_tier = current).
C14_TargetsNextTier ==
  engineTargets # None =>
    \A k \in GaugeKeys :
      LET entries == { i \in DOMAIN engineTargets[1] :
                         engineTargets[1][i].key = k }
      IN  IF engineGauges[1][k] >= 95
          THEN entries = { }
          ELSE /\ Cardinality(entries) = 1
               /\ \A i \in entries :
                    LET t == engineTargets[1][i]
                    IN  /\ t.current = engineGauges[1][k]
                        /\ t.next_tier \in { 50, 65, 75, 85, 95 }
                        /\ t.next_tier > t.current
                        /\ \A tier \in { 50, 65, 75, 85, 95 } :
                             tier > t.current => t.next_tier <= tier

\* a gauge standing on the first tier is sent to the second, and a gauge
\* above the top tier has no target
C14_Witness ==
  /\ engineTargets # None
  /\ \E i \in DOMAIN engineTargets[1] :
       /\ engineTargets[1][i].current = 50
       /\ engineTargets[1][i].next_tier = 65
  /\ \E k \in GaugeKeys :
       /\ engineGauges[1][k] = 100
       /\ \A i \in DOMAIN engineTargets[1] : engineTargets[1][i].key # k

\* the weight the candidate with this key was given
WeightOf(key) ==
  candidates[1][CHOOSE i \in DOMAIN candidates[1] :
                  candidates[1][i].key = key].weight

\* the position of the key in the catalog
CatalogIndex(key) == CHOOSE i \in 1..CatalogSize : Catalog[i] = key

\* C15: in recommendations.all the priority field is an integer rank starting
\* at 1 that follows list order, the order being the candidates sorted by
\* weight descending with ties broken by catalog order; hence the ordinal the
\* dashboard prints for each entry matches its rank.
C15_PriorityIsRank ==
  /\ engineRecs # None =>
       LET all == engineRecs[1].all
       IN  /\ \A i \in DOMAIN all : all[i].priority = i
           /\ Len(all) = Len(candidates[1])
           /\ { all[i].key : i \in DOMAIN all }
                = { candidates[1][i].key : i \in DOMAIN candidates[1] }
           /\ \A i, j \in DOMAIN all :
                i < j =>
                  \/ WeightOf(all[i].key) > WeightOf(all[j].key)
                  \/ /\ WeightOf(all[i].key) = WeightOf(all[j].key)
                     /\ CatalogIndex(all[i].key) < CatalogIndex(all[j].key)
  /\ recsShown # None =>
       \A n \in DOMAIN recsShown[1] :
         recsShown[1][n].ordinal = engineRecs[1].all[n].priority

\* the ranking moved a later catalog entry to the front and kept two entries
\* of equal weight in catalog order, and the list is displayed
C15_Witness ==
  /\ stage = "shown"
  /\ Len(engineRecs[1].all) = 3
  /\ engineRecs[1].all[1].key = "rec3"
  /\ engineRecs[1].all[2].key = "rec1"
  /\ engineRecs[1].all[3].key = "rec2"
  /\ recsShown[1][3].ordinal = 3

\* the detail of a reply's body, None when the body carries none
DetailOf(r) ==
  IF r.body.json /\ r.body.value # None THEN r.body.value[1].detail ELSE None

\* C17: on every non-OK response submitSurvey throws and never returns a body
\* (the message is the body's detail when it is truthy, otherwise 'Failed to
\* submit survey'), and on every OK response it returns the parsed body
\* without throwing.
C17_ThrowsOrReturns ==
  \A k \in DOMAIN submits :
    submits[k].response # None /\ ~SubmitReply(k).failed =>
      LET r      == SubmitReply(k)
          result == submitSurvey(r)
      IN  /\ ~r.ok =>
               /\ result.threw
               /\ result.message =
                    (IF Truthy(DetailOf(r)) THEN DetailOf(r)[1]
                     ELSE "Failed to submit survey")
          /\ r.ok =>
               /\ ~result.threw
               /\ r.body.json /\ result.value = r.body.value

\* how often x occurs in s
Count(s, x) == Cardinality({ i \in DOMAIN s : s[i] = x })

\* C18: sorting alerts for display does not modify the stored Summary: after
\* sortedAlerts is computed, flags.alerts has the same elements in the same
\* order as before, and sortedAlerts is a permutation of it (no alert
\* dropped, added or duplicated).
C18_SortLeavesAlerts ==
  [][ \A k \in DOMAIN fetches :
        FetchSettles(k) /\ view'.screen = "dashboard" =>
          LET before == FetchReply(k).body.value[1].results.flags.alerts
              after  == data'[1].results.flags.alerts
          IN  /\ after = before
              /\ Len(view'.sortedAlerts) = Len(before)
              /\ \A i \in DOMAIN before :
                   Count(view'.sortedAlerts, before[i]) = Count(before, before[i])
    ]_vars

\* a record whose alerts arrive least severe first is displayed most severe
\* first, and the record still holds them as they arrived
C18_Witness ==
  /\ view.screen = "dashboard"
  /\ Len(data[1].results.flags.alerts) = 3
  /\ data[1].results.flags.alerts[1].severity = "info"
  /\ data[1].results.flags.alerts[3].severity = "high"
  /\ view.sortedAlerts[1].severity = "high"
  /\ view.sortedAlerts[1] = data[1].results.flags.alerts[3]

\* the age a blur is to leave, given the age it finds
Clamped(age) == IF age < 18 THEN 18 ELSE IF age > 80 THEN 80 ELSE age

\* C19: the age field clamps on blur: after any blur event the age is in
\* 18..80 (an empty, zero or below-18 value becomes 18, a value above 80
\* becomes 80, a value already in range is unchanged), and between blurs
\* typing can only set age to an integer in 0..99.
C19_AgeClampsOnBlur ==
  /\ ~ENABLED (BlurAge /\ answers'.age \notin 18..80)
  /\ ~ENABLED (BlurAge /\ answers'.age # Clamped(answers.age))
  /\ ~ENABLED ((\E val \in AgeTexts : ChangeAge(val)) /\ answers'.age \notin 0..99)
  /\ answers.age \in 0..99

\* the field holds 99, and a blur is about to bring it to 80
C19_Witness ==
  /\ step = 2
  /\ answers.age = 99
  /\ ENABLED (BlurAge /\ answers'.age = 80)

\* C20: in every reachable questionnaire state step is in 1..10; handleNext at
\* step 10 and handleBack at step 1 leave step unchanged, and every other
\* step change is by exactly +1 or -1, so submission (available only at step
\* 10) is reachable only after passing every step 1..9 in order.
C20_StepInRange ==
  /\ [](step \in 1..10)
  /\ [](step = 10 => ~ENABLED (handleNext /\ step' # step))
  /\ [](step = 1 => ~ENABLED (handleBack /\ step' # step))
  /\ [][step' # step => step' = step + 1 \/ step' = step - 1]_vars
  /\ [](ENABLED ClickSubmit => step = 10)
  /\ [][Len(submits') > Len(submits) => step = 10 /\ step' = 10]_vars

\* the last step: handleNext would leave it, and the answers can be submitted
C20_Witness ==
  /\ step = 10
  /\ ENABLED (handleNext /\ step' = step)
  /\ ENABLED ClickSubmit
  /\ ~ENABLED ClickNext

\* C21: no stale error is shown during a request: in every reachable
\* questionnaire state, loading = true implies error = null, because
\* handleSubmit clears the error when it starts and an error is only set
\* together with loading = false.
C21_NoErrorWhileLoading ==
  /\ [](loading => error = None /\ SurveyErrorBox(error) = None)
  /\ [][error' # error /\ error' # None => loading' = FALSE]_vars
  /\ [][loading' /\ ~loading => error' = None]_vars

\* a request is pending whose reply will be rejected, and no error is shown
C21_Witness ==
  /\ loading
  /\ error = None
  /\ Len(submits) = 1
  /\ submits[1].response # None
  /\ CarriesDetail(submits[1].response[1])

\* C22: while a submit request is pending (loading = true) the step cannot
\* change: Back is disabled, Next is not rendered at step 10, so step stays
\* 10 until the request settles; and after a successful request loading is
\* never reset to false, so no second submit can be issued from that page.
C22_StepFrozenWhileLoading ==
  /\ [](loading => step = 10 /\ ~ENABLED ClickBack /\ ~ENABLED ClickNext)
  /\ [][loading => step' = step]_vars
  /\ [](route # "/survey" => loading /\ ~ENABLED ClickSubmit)
  /\ [][route # "/survey" => loading' /\ submits' = submits]_vars
  /\ [][\A k \in DOMAIN submits :
          SubmitSettles(k) /\ route' # "/survey" => loading /\ loading']_vars

\* the request has succeeded: the router has left, loading is still true and
\* the submit button stays disabled
C22_Witness ==
  /\ route = "/results/r1"
  /\ loading
  /\ step = 10
  /\ submits = << >>
  /\ ~ENABLED ClickSubmit
  /\ ~ENABLED ClickBack

\* C23: on the results page, once loading is false exactly one of data and
\* error is non-null (a loaded record is never accompanied by an error, and a
\* settled fetch never leaves both null), in every reachable state including
\* those reached after the route id changes and a second fetch runs.
C23_DataXorError ==
  ~resLoading => (data # None) # (resError # None)

\* the reply is an OK one carrying a record
CarriesRecord(r) ==
  ~r.failed /\ r.ok /\ r.body.json /\ r.body.value # None

\* C24: when the route id changes while an earlier getSurveyResults call is
\* still pending, the record finally held in data (and displayed) after all
\* pending fetches settle is the one fetched for the latest id, whatever
\* order the responses arrive in.
C24_LatestIdWins ==
  [][ \A k \in DOMAIN fetches :
        /\ FetchSettles(k)
        /\ started >= 2
        /\ fetches' = << >>
        /\ CarriesRecord(FetchReply(k))
        => /\ data' # None
           /\ data'[1].id = id
    ]_vars

\* C25: on the results page loading eventually becomes false provided the
\* promise of getSurveyResults settles (the finally block runs on both the
\* success and the failure path), and once false it never becomes true
\* again, not even when the route id changes and a new fetch starts.
C25_LoadingEndsForGood ==
  /\ <>(~resLoading)
  /\ [][~resLoading => ~resLoading']_vars

\* loading is false while the fetch started by a route change is pending
C25_Witness ==
  /\ ~resLoading
  /\ started = 2
  /\ Len(fetches) = 1
  /\ fetches[1].id = id

\* the tier of a score: 75 and more, 50 to 74, less than 50
TierOfScore(score) ==
  IF score >= 75 THEN "green" ELSE IF score >= 50 THEN "yellow" ELSE "red"

\* the tier a Tailwind text class stands for
TierOfClass(c) ==
  CASE c = "text-emerald-500" -> "green"
    [] c = "text-yellow-500"  -> "yellow"
    [] c = "text-red-500"     -> "red"
    [] OTHER                  -> "none"

\* the tier a hex colour stands for
TierOfHex(h) ==
  CASE h = "#10b981" -> "green"
    [] h = "#eab308" -> "yellow"
    [] h = "#ef4444" -> "red"
    [] OTHER         -> "none"

\* the label that goes with a tier, by polarity
LabelOfTier(tier, inverse) ==
  CASE tier = "yellow" -> "Srednij"
    [] tier = "green"  -> IF inverse THEN "Nizkij" ELSE "Vysokij"
    [] tier = "red"    -> IF inverse THEN "Vysokij" ELSE "Nizkij"

\* C26: for every value in 0..100 and both polarities, with score = value
\* for a direct and 100 - value for an inverse gauge, the class of
\* getScoreColor and the hex colour of getHexColor are of the same tier (the
\* one of the score), and the text label of MiniDonut is the one matching
\* its colour: inverse green, yellow, red go with "Nizkij", "Srednij",
\* "Vysokij"; direct green, yellow, red with "Vysokij", "Srednij", "Nizkij".
C26_TiersAgree ==
  gaugeView # None =>
    LET shown == gaugeView[1]
        tier  == TierOfScore(IF gaugeProps.inverse
                             THEN 100 - gaugeProps.value
                             ELSE gaugeProps.value)
    IN  /\ TierOfClass(shown.row.colorClass) = tier
        /\ TierOfHex(shown.donut.color) = tier
        /\ TierOfClass(shown.row.colorClass) = TierOfHex(shown.donut.color)
        /\ shown.donut.text = LabelOfTier(TierOfHex(shown.donut.color),
                                          gaugeProps.inverse)

\* an inverse gauge rendered at the bound of its green tier
C26_Witness ==
  /\ gaugeView # None
  /\ gaugeProps.inverse
  /\ gaugeProps.value = 25
  /\ gaugeView[1].donut.color = "#10b981"
  /\ gaugeView[1].donut.text = "Nizkij"
  /\ gaugeView[1].row.colorClass = "text-emerald-500"

\* the time animate measured at the latest frame, in ticks
Elapsed == clock - startTime[1]

\* the animation has run for its whole duration
AnimationOver == startTime # None /\ Elapsed >= animProps.duration

\* C27: AnimatedNumber terminates on its target, for a fixed value and
\* duration: once the elapsed time reaches the duration the displayed number
\* is round(value) and no further animation frame is requested; for a value
\* of 0 or more the displayed number never decreases along the way; and the
\* animation of a component that stays mounted does come to its end.
C27_AnimationEndsOnTarget ==
  /\ [](AnimationOver =>
         /\ displayValue = MathRound(animProps.value, 2)
         /\ frameRequests = { })
  /\ [][AnimationOver => frameRequests' = { } /\ displayValue' = displayValue]_vars
  /\ [][animProps.value >= 0 => displayValue' >= displayValue]_vars
  /\ <>(AnimationOver \/ ~animMounted)

\* 74.5 has been counted up to 75 over several frames, and none is pending
C27_Witness ==
  /\ AnimationOver
  /\ animMounted
  /\ animProps.value = 149
  /\ displayValue = 75
  /\ animationFrame # None
  /\ animationFrame[1] >= 4
  /\ frameRequests = { }

====
